---- MODULE Spec2Model ----
(***************************************************************************)
(* listhid: list_hid_device (src/src/lib.rs) over the Win32 bindings of    *)
(* src/src/win32/mod.rs.  One run of list_hid_device is modelled as a      *)
(* sequential program; every action is one call into the OS together      *)
(* with the code that runs up to the next call.  The OS answers each call  *)
(* from a fixed device tree (world) or with an injected failure.  The      *)
(* variable calls records every OS call in program order.                  *)
(*                                                                         *)
(* Input domain: the OS hands out well-formed UTF-16 text (so the unwrap   *)
(* of lpcwstr_to_string does not panic); a size probe with a null buffer   *)
(* fails, with "buffer too small" and the true size or with another error. *)
(***************************************************************************)
EXTENDS Integers, Sequences, FiniteSets, TLC

\* ---------------------------------------------------------------- bounds
\* device-info entries in the enumeration set
MaxInfo == 2
\* HID interfaces under one device-info entry
MaxIface == 2
\* HID interfaces in the whole set
MaxDevices == 2

\* ------------------------------------------------------ program constants
ERROR_NO_MORE_ITEMS == 259
ERROR_INSUFFICIENT_BUFFER == 122
\* an OS error code that is neither of the two sentinels (ERROR_ACCESS_DENIED)
OtherErrors == {5}
\* size_of::<DWORD>() and size_of::<WCHAR>()
SizeOfDWORD == 4
SizeOfWCHAR == 2
\* const MAXSIZE of the two HID string queries
MAXSIZE == 127
\* size_of::<SP_DEVICE_INTERFACE_DETAIL_DATA_W>() on a 64-bit target
CbSizeDetail == 8

\* error codes a failing call may report
EnumErrors == OtherErrors \cup {ERROR_INSUFFICIENT_BUFFER}
ProbeErrors == OtherErrors \cup {ERROR_NO_MORE_ITEMS}
AnyErrors == OtherErrors \cup {ERROR_NO_MORE_ITEMS, ERROR_INSUFFICIENT_BUFFER}

\* ------------------------------------------------------------- Option<T>
None == <<>>
Some(x) == <<x>>
IsSome(o) == o # <<>>
Unwrap(o) == o[1]

\* ------------------------------------------------------------- sequences
RECURSIVE SumSeq(_)
SumSeq(s) == IF s = <<>> THEN 0 ELSE Head(s) + SumSeq(Tail(s))

Zeros(n) == [i \in 1..n |-> 0]

\* first position of a 0 in s, or Len(s) + 1
RECURSIVE FirstZero(_, _)
FirstZero(s, i) ==
  IF i > Len(s) THEN i ELSE IF s[i] = 0 THEN i ELSE FirstZero(s, i + 1)

\* y written over the front of buffer s (y no longer than s)
Overwrite(s, off, y) ==
  [i \in 1..Len(s) |-> IF i > off /\ i <= off + Len(y) THEN y[i - off] ELSE s[i]]

\* ------------------------------------------------- wide strings and bytes
\* little-endian bytes of a sequence of UTF-16 code units
WideToBytes(w) ==
  [i \in 1..(SizeOfWCHAR * Len(w)) |->
     IF i % 2 = 1 THEN w[(i + 1) \div 2] % 256 ELSE w[i \div 2] \div 256]

\* the n code units read through a PWCHAR that points off bytes into raw
WideAt(raw, off, n) ==
  [i \in 1..n |-> raw[off + 2 * i - 1] + 256 * raw[off + 2 * i]]

\* lpcwstr_to_string: the code units before the first NUL among length units
lpcwstr_to_string(wide_string, length) ==
  SubSeq(wide_string, 1, FirstZero(SubSeq(wide_string, 1, length), 1) - 1)

\* string_to_lpcwstr: the string followed by one NUL
string_to_lpcwstr(s) == s \o <<0>>

\* ------------------------------------------------------- the device tree
\* world[j] is the number of HID interfaces of device-info entry j.
Worlds ==
  { w \in UNION { [1..n -> 0..MaxIface] : n \in 0..MaxInfo } :
      SumSeq(w) <= MaxDevices }

\* Interfaces are numbered 1..N over the whole set, info entry by info entry.
IfaceOffset(w, j) == SumSeq(SubSeq(w, 1, j - 1))
IfaceTotal(w) == SumSeq(w)
IfaceOwner(w, k) ==
  CHOOSE j \in 1..Len(w) : IfaceOffset(w, j) < k /\ k <= IfaceOffset(w, j) + w[j]

\* what the OS reports for interface k / info entry j
DevicePathOf(k) == <<80>> \o [i \in 1..k |-> 120]
DetailSizeOf(k) == SizeOfDWORD + SizeOfWCHAR * (Len(DevicePathOf(k)) + 1)
VendorIdOf(k) == 1133
ProductIdOf(k) == 50475 + k
ProductStringOf(k) == <<77, 48 + k>>
SerialStringOf(k) == <<83, 48 + k, 48 + k>>
PdoNameOf(j) == <<68, 48 + j>>
PdoSizeOf(j) == SizeOfWCHAR * (Len(PdoNameOf(j)) + 1)

\* the interface a device path names, 0 when no device has that path
IfaceOfPath(w, name) ==
  IF \E k \in 1..IfaceTotal(w) : DevicePathOf(k) = name
  THEN CHOOSE k \in 1..IfaceTotal(w) : DevicePathOf(k) = name
  ELSE 0

\* ------------------------------------------------------ the call record
\* fn: the OS function; arg: the handle, interface or info entry passed
\* (0 for null); idx: the member index; size: the buffer size passed;
\* ok: the call returned success; err: GetLastError after a failure;
\* out: the value handed back (entry, handle, required size).
Call(fn, arg, idx, size, ok, err, out) ==
  [fn |-> fn, arg |-> arg, idx |-> idx, size |-> size, ok |-> ok, err |-> err,
   out |-> out]

\* ------------------------------------------------- what the OS may answer
\* An answer is [ok, err, out]: success with a value, or failure with the
\* code GetLastError then reports.  A failure can be injected at any call.
Success(v) == [ok |-> TRUE, err |-> 0, out |-> v]
Failure(c) == [ok |-> FALSE, err |-> c, out |-> 0]
Failures(codes) == { Failure(c) : c \in codes }

\* SetupDiGetClassDevsW
OsGetClassDevs == {Success(1)} \cup Failures(AnyErrors)

\* SetupDiEnumDeviceInfo at member index idx: entry idx + 1 of the tree
OsEnumDeviceInfo(w, idx) ==
  (IF idx < Len(w) THEN {Success(idx + 1)} ELSE {Failure(ERROR_NO_MORE_ITEMS)})
    \cup Failures(EnumErrors)

\* SetupDiEnumDeviceInterfaces at member index idx, under info entry info
\* (None: over the whole set)
OsEnumDeviceInterfaces(w, info, idx) ==
  (IF IsSome(info)
   THEN IF idx < w[Unwrap(info)]
        THEN {Success(IfaceOffset(w, Unwrap(info)) + idx + 1)}
        ELSE {Failure(ERROR_NO_MORE_ITEMS)}
   ELSE IF idx < IfaceTotal(w)
        THEN {Success(idx + 1)}
        ELSE {Failure(ERROR_NO_MORE_ITEMS)})
    \cup Failures(EnumErrors)

\* SetupDiGetDeviceInterfaceDetailW with a null buffer of size 0: out is the
\* required size it stores (untouched, 0, on another failure).  With no
\* buffer to fill the call never succeeds.
OsDetailProbe(k) ==
  {[ok |-> FALSE, err |-> ERROR_INSUFFICIENT_BUFFER, out |-> DetailSizeOf(k)]}
    \cup Failures(ProbeErrors)

\* SetupDiGetDeviceInterfaceDetailW into buffer raw: out is the DevInst of
\* the info record it fills and the buffer afterwards, the path written
\* behind the cbSize field
OsDetailData(w, k, raw) ==
  IF Len(raw) >= DetailSizeOf(k)
  THEN {Success([DevInst |-> IfaceOwner(w, k),
                 buffer |-> Overwrite(raw, SizeOfDWORD,
                              WideToBytes(string_to_lpcwstr(DevicePathOf(k))))])}
       \cup {[ok |-> FALSE, err |-> c, out |-> [DevInst |-> 0, buffer |-> raw]] :
               c \in AnyErrors}
  ELSE {[ok |-> FALSE, err |-> ERROR_INSUFFICIENT_BUFFER,
         out |-> [DevInst |-> 0, buffer |-> raw]]}

\* CreateFileW on a NUL-terminated name, OPEN_EXISTING: out is the handle,
\* which names the device it is open on
OsCreateFile(w, name) ==
  LET k == IfaceOfPath(w, lpcwstr_to_string(name, Len(name)))
  IN  IF k # 0 THEN {Success(k)} \cup Failures(AnyErrors)
      ELSE Failures(OtherErrors)

\* HidD_GetAttributes on handle h (0: null): out is the attribute record
\* afterwards (left zeroed on failure)
OsGetAttributes(h) ==
  (IF h # 0
   THEN {Success([VendorID |-> VendorIdOf(h), ProductID |-> ProductIdOf(h)])}
   ELSE {})
    \cup {[ok |-> FALSE, err |-> c, out |-> [VendorID |-> 0, ProductID |-> 0]] :
            c \in AnyErrors}

\* HidD_GetProductString / HidD_GetSerialNumberString into a zeroed buffer
\* of len code units: out is the buffer afterwards
OsGetString(h, text, len) ==
  (IF h # 0 /\ Len(text) < len
   THEN {Success(Overwrite(Zeros(len), 0, string_to_lpcwstr(text)))}
   ELSE {})
    \cup {[ok |-> FALSE, err |-> c, out |-> Zeros(len)] : c \in OtherErrors}

\* SetupDiGetDeviceRegistryPropertyW with a null buffer of size 0
OsRegistryProbe(j) ==
  {[ok |-> FALSE, err |-> ERROR_INSUFFICIENT_BUFFER, out |-> PdoSizeOf(j)]}
    \cup Failures(OtherErrors)

\* SetupDiGetDeviceRegistryPropertyW into buffer raw: out is the buffer
\* afterwards (untouched on failure)
OsRegistryData(j, raw) ==
  (IF Len(raw) >= PdoSizeOf(j)
   THEN {Success(Overwrite(raw, 0, WideToBytes(string_to_lpcwstr(PdoNameOf(j)))))}
   ELSE {})
    \cup {[ok |-> FALSE, err |-> c, out |-> raw] : c \in OtherErrors}

\* ------------------------------------------------------------ the program
VARIABLES
  world,                   \* the device tree the OS answers from
  pc,                      \* the OS call list_hid_device makes next
  class_devs_info,         \* HDevInfo.native_handle
  device_info_entries,     \* Vec of setup_di_enum_device_info
  index,                   \* index of the running enumeration loop
  info_pos,                \* position of build_device_data_with_info's for loop
  interface_data_entries,  \* Vec of setup_di_enum_device_interfaces
  device_data,             \* Vec<DeviceData> built by build_device_data
  pos,                     \* position of list_hid_device's for loop
  required_size,           \* required_size of the running two-phase query
  raw_memory,              \* raw_memory of the running two-phase query
  device_interface_detail, \* DeviceInterfaceDetail of the current device
  handle,                  \* Handle.native_handle of the current device
  hidd_attributes,         \* HIDD_ATTRIBUTES of the current device
  product_string,          \* product_string of the record under construction
  serial_number_string,    \* serial_number_string of that record
  devices,                 \* Vec<HidDevice> of list_hid_device
  result,                  \* what list_hid_device returned
  calls                    \* every OS call so far, in program order

vars ==
  <<world, pc, class_devs_info, device_info_entries, index, info_pos,
    interface_data_entries, device_data, pos, required_size, raw_memory,
    device_interface_detail, handle, hidd_attributes, product_string,
    serial_number_string, devices, result, calls>>

walker == <<device_info_entries, index, info_pos, interface_data_entries>>
resolver ==
  <<required_size, raw_memory, device_interface_detail, hidd_attributes,
    product_string, serial_number_string>>

\* Result<Vec<HidDevice>, io::Error>
Pending == [kind |-> "Pending", devices |-> <<>>, code |-> 0]
Ok(v) == [kind |-> "Ok", devices |-> v, code |-> 0]
Err(c) == [kind |-> "Err", devices |-> <<>>, code |-> c]

NoDetail == [device_path |-> <<>>, device_info_data |-> 0]
NoAttributes == [VendorID |-> 0, ProductID |-> 0]

\* a Drop for Handle that forgets to close
HandleDropNever(h, log) == log

\* a Drop for Handle that closes whatever it holds, the null handle too
HandleDropAlways(h, log) ==
  Append(log, Call("CloseHandle", IF IsSome(h) THEN Unwrap(h) ELSE 0, 0, 0, TRUE, 0, 0))

\* impl Drop for Handle: CloseHandle unless native_handle is None
HandleDrop(h, log) ==
  IF IsSome(h)
  THEN Append(log, Call("CloseHandle", Unwrap(h), 0, 0, TRUE, 0, 0))
  ELSE log

\* impl Drop for HDevInfo: SetupDiDestroyDeviceInfoList unless None
HDevInfoDrop(h, log) ==
  IF IsSome(h)
  THEN Append(log, Call("SetupDiDestroyDeviceInfoList", Unwrap(h), 0, 0, TRUE, 0, 0))
  ELSE log

\* handle.native_handle.unwrap_or(ptr::null_mut())
NativeOrNull(h) == IF IsSome(h) THEN Unwrap(h) ELSE 0

\* the Handle { native_handle: None } passed as template_file
template_file == None

\* an enumeration loop that takes "no more items" for an error like any other
EnumLoopStepNoSentinel(o) == IF o.ok THEN "push" ELSE "err"

\* an enumeration loop that ends quietly on every failure
EnumLoopStepAnyErrorBreaks(o) == IF o.ok THEN "push" ELSE "break"

\* the match of the two enumeration loops on a call's outcome
EnumLoopStep(o) ==
  IF o.ok THEN "push"
  ELSE IF o.err = ERROR_NO_MORE_ITEMS THEN "break" ELSE "err"

\* a test after the size probe that takes every failed probe for an error
DetailProbeFailsAlways(o) == ~o.ok

\* the test after the size probe of setup_di_get_device_interface_detail
DetailProbeFails(o) == ~o.ok /\ o.err # ERROR_INSUFFICIENT_BUFFER

\* a buffer one byte longer than the size asked for
AllocRawMemoryOffByOne(size) == Zeros(size + 1)

\* a buffer sized by the path length instead of the reported size
AllocRawMemoryPathOnly(size) == Zeros((size - SizeOfDWORD) \div SizeOfWCHAR)

\* vec![0u8; required_size as usize]
AllocRawMemory(size) == Zeros(size)

\* (required_size as usize - size_of::<DWORD>()) / size_of::<WCHAR>()
PathSize(size) == (size - SizeOfDWORD) \div SizeOfWCHAR

\* the cbSize field stored at the front of the detail buffer
DwordBytes(v) ==
  <<v % 256, (v \div 256) % 256, (v \div 65536) % 256, (v \div 16777216) % 256>>

\* pushes that leave out the last interface of an info entry
WithInfoPushDropLast(devs, entries, info) ==
  devs \o [i \in 1..(Len(entries) - 1) |->
             [interface_data |-> entries[i], info_data |-> Some(info)]]

\* pushes that put the interfaces of an info entry in front of the list
WithInfoPushFront(devs, entries, info) ==
  [i \in 1..Len(entries) |->
     [interface_data |-> entries[i], info_data |-> Some(info)]] \o devs

\* the pushes of build_device_data_with_info for one info entry
WithInfoPush(devs, entries, info) ==
  devs \o [i \in 1..Len(entries) |->
             [interface_data |-> entries[i], info_data |-> Some(info)]]

\* fallback pushes that attach a parent info entry
WithoutInfoPushWithInfo(devs, entries) ==
  devs \o [i \in 1..Len(entries) |->
             [interface_data |-> entries[i], info_data |-> Some(1)]]

\* the pushes of build_device_data_without_info
WithoutInfoPush(devs, entries) ==
  devs \o [i \in 1..Len(entries) |->
             [interface_data |-> entries[i], info_data |-> None]]

\* hid_d_get_product_string on the outcome of HidD_GetProductString
hid_d_get_product_string(o) ==
  IF ~o.ok THEN None ELSE Some(lpcwstr_to_string(o.out, Len(o.out)))

\* a serial-number query that takes every outcome for a string
hid_d_get_serial_number_string_always(o) ==
  Some(lpcwstr_to_string(o.out, Len(o.out)))

\* hid_d_get_serial_number_string on the outcome of HidD_GetSerialNumberString
hid_d_get_serial_number_string(o) ==
  IF ~o.ok THEN None ELSE Some(lpcwstr_to_string(o.out, Len(o.out)))

\* get_pdo_name on the buffer setup_di_get_device_registry_property returned
PdoNameFromBuffer(buffer) ==
  LET device_path_size == Len(buffer) \div SizeOfWCHAR
  IN  Some(lpcwstr_to_string(WideAt(buffer, 0, device_path_size), device_path_size))

\* the HidDevice literal with the two identifiers exchanged
HidDeviceSwapped(detail, attributes, ps, ss, pdo) ==
  [path |-> detail.device_path,
   product_id |-> attributes.VendorID,
   vendor_id |-> attributes.ProductID,
   product_string |-> ps,
   serial_number_string |-> ss,
   dev_inst |-> Some(detail.device_info_data),
   pdo_name |-> pdo]

\* the HidDevice literal of list_hid_device
HidDevice(detail, attributes, ps, ss, pdo) ==
  [path |-> detail.device_path,
   product_id |-> attributes.ProductID,
   vendor_id |-> attributes.VendorID,
   product_string |-> ps,
   serial_number_string |-> ss,
   dev_inst |-> Some(detail.device_info_data),
   pdo_name |-> pdo]

Init ==
  /\ world \in Worlds
  /\ pc = "get_class_devs"
  /\ class_devs_info = None
  /\ device_info_entries = <<>>
  /\ index = 0
  /\ info_pos = 0
  /\ interface_data_entries = <<>>
  /\ device_data = <<>>
  /\ pos = 0
  /\ required_size = 0
  /\ raw_memory = <<>>
  /\ device_interface_detail = NoDetail
  /\ handle = None
  /\ hidd_attributes = NoAttributes
  /\ product_string = None
  /\ serial_number_string = None
  /\ devices = <<>>
  /\ result = Pending
  /\ calls = <<>>

ClearWalker ==
  /\ device_info_entries' = <<>>
  /\ index' = 0
  /\ info_pos' = 0
  /\ interface_data_entries' = <<>>

ClearResolver ==
  /\ required_size' = 0
  /\ raw_memory' = <<>>
  /\ device_interface_detail' = NoDetail
  /\ hidd_attributes' = NoAttributes
  /\ product_string' = None
  /\ serial_number_string' = None

\* a return that drops the enumeration set before the device handle
ReturnSetFirst(res, log, built) ==
  /\ pc' = "done"
  /\ result' = res
  /\ calls' = HandleDrop(handle, HDevInfoDrop(class_devs_info, log))
  /\ class_devs_info' = None
  /\ handle' = None
  /\ device_data' = built
  /\ devices' = <<>>
  /\ pos' = 0
  /\ ClearWalker
  /\ ClearResolver
  /\ UNCHANGED world

\* list_hid_device returns res: the locals still alive are dropped, the
\* device handle of the current iteration before the enumeration set.
Return(res, log, built) ==
  /\ pc' = "done"
  /\ result' = res
  /\ calls' = HDevInfoDrop(class_devs_info, HandleDrop(handle, log))
  /\ class_devs_info' = None
  /\ handle' = None
  /\ device_data' = built
  /\ devices' = <<>>
  /\ pos' = 0
  /\ ClearWalker
  /\ ClearResolver
  /\ UNCHANGED world

\* iteration p of the for loop of list_hid_device begins
StartDevice(p, devs, log, built) ==
  /\ pc' = "detail_probe"
  /\ pos' = p
  /\ devices' = devs
  /\ calls' = log
  /\ device_data' = built
  /\ handle' = None
  /\ ClearWalker
  /\ ClearResolver
  /\ UNCHANGED <<world, class_devs_info, result>>

\* build_device_data returned Ok(built): the for loop is entered
EnterLoop(built, log) ==
  IF built = <<>>
  THEN Return(Ok(<<>>), log, built)
  ELSE StartDevice(1, <<>>, log, built)

\* the record is pushed and the iteration ends, dropping its Handle
FinishDevice(ss, pdo, log) ==
  LET rec == HidDevice(device_interface_detail, hidd_attributes, product_string, ss, pdo)
  IN  IF pos < Len(device_data)
      THEN StartDevice(pos + 1, Append(devices, rec), HandleDrop(handle, log),
                       device_data)
      ELSE Return(Ok(Append(devices, rec)), log, device_data)

\* a failed call that ends the scan with the records built so far
PropagateErrPartial(o, log, built) == Return(Ok(devices), log, built)

\* the `?` operator on a failed call: return Err(io::Error::last_os_error())
PropagateErr(o, log, built) == Return(Err(o.err), log, built)

\* the process is torn down without unwinding: nothing is dropped
Abort(log) ==
  /\ pc' = "aborted"
  /\ calls' = log
  /\ UNCHANGED <<world, class_devs_info, walker, device_data, pos, resolver,
                 handle, devices, result>>

\* setup_di_get_class_devs, and the `?` on it
GetClassDevs ==
  /\ pc = "get_class_devs"
  /\ \E o \in OsGetClassDevs :
       LET log == Append(calls, Call("SetupDiGetClassDevsW", 0, 0, 0, o.ok, o.err, o.out))
       IN  IF o.ok
           THEN /\ class_devs_info' = Some(o.out)
                /\ pc' = "enum_device_info"
                /\ calls' = log
                /\ UNCHANGED <<world, walker, device_data, pos, resolver, handle,
                               devices, result>>
           ELSE PropagateErr(o, log, <<>>)

\* build_device_data, Ok arm: build_device_data_with_info starts its for loop
BuildDeviceDataOk(entries, log) ==
  IF entries = <<>>
  THEN EnterLoop(<<>>, log)
  ELSE /\ pc' = "enum_interfaces_with_info"
       /\ device_info_entries' = entries
       /\ info_pos' = 1
       /\ index' = 0
       /\ interface_data_entries' = <<>>
       /\ calls' = log
       /\ UNCHANGED <<world, class_devs_info, device_data, pos, resolver, handle,
                      devices, result>>

\* an Err arm that propagates the error of the device-info enumeration
BuildDeviceDataErrFatal(o, log) == PropagateErr(o, log, <<>>)

\* an Err arm that goes on with the info entries collected before the error
BuildDeviceDataErrKeep(o, log) == BuildDeviceDataOk(device_info_entries, log)

\* build_device_data, Err(_) arm: build_device_data_without_info starts
BuildDeviceDataErr(o, log) ==
  /\ pc' = "enum_interfaces_without_info"
  /\ device_info_entries' = <<>>
  /\ info_pos' = 0
  /\ index' = 0
  /\ interface_data_entries' = <<>>
  /\ calls' = log
  /\ UNCHANGED <<world, class_devs_info, device_data, pos, resolver, handle,
                 devices, result>>

\* one turn of the loop of setup_di_enum_device_info
EnumDeviceInfo ==
  /\ pc = "enum_device_info"
  /\ \E o \in OsEnumDeviceInfo(world, index) :
       LET log == Append(calls, Call("SetupDiEnumDeviceInfo", 0, index, 0, o.ok, o.err, o.out))
           step == EnumLoopStep(o)
       IN  CASE step = "push" ->
                  /\ device_info_entries' = Append(device_info_entries, o.out)
                  /\ index' = index + 1
                  /\ calls' = log
                  /\ UNCHANGED <<world, pc, class_devs_info, info_pos,
                                 interface_data_entries, device_data, pos, resolver,
                                 handle, devices, result>>
             [] step = "break" -> BuildDeviceDataOk(device_info_entries, log)
             [] OTHER -> BuildDeviceDataErr(o, log)

\* one turn of the loop of setup_di_enum_device_interfaces called by
\* build_device_data_with_info for the info entry at info_pos
EnumInterfacesWithInfo ==
  /\ pc = "enum_interfaces_with_info"
  /\ LET info == device_info_entries[info_pos]
     IN  \E o \in OsEnumDeviceInterfaces(world, Some(info), index) :
           LET log == Append(calls, Call("SetupDiEnumDeviceInterfaces", info, index, 0,
                                         o.ok, o.err, o.out))
               step == EnumLoopStep(o)
               built == WithInfoPush(device_data, interface_data_entries, info)
           IN  CASE step = "push" ->
                      /\ interface_data_entries' = Append(interface_data_entries, o.out)
                      /\ index' = index + 1
                      /\ calls' = log
                      /\ UNCHANGED <<world, pc, class_devs_info, device_info_entries,
                                     info_pos, device_data, pos, resolver, handle,
                                     devices, result>>
                 [] step = "break" ->
                      IF info_pos < Len(device_info_entries)
                      THEN /\ info_pos' = info_pos + 1
                           /\ index' = 0
                           /\ interface_data_entries' = <<>>
                           /\ device_data' = built
                           /\ calls' = log
                           /\ UNCHANGED <<world, pc, class_devs_info,
                                          device_info_entries, pos, resolver, handle,
                                          devices, result>>
                      ELSE EnterLoop(built, log)
                 [] OTHER -> PropagateErr(o, log, <<>>)

\* one turn of the loop of setup_di_enum_device_interfaces called by
\* build_device_data_without_info with a null info entry
EnumInterfacesWithoutInfo ==
  /\ pc = "enum_interfaces_without_info"
  /\ \E o \in OsEnumDeviceInterfaces(world, None, index) :
       LET log == Append(calls, Call("SetupDiEnumDeviceInterfaces", 0, index, 0,
                                     o.ok, o.err, o.out))
           step == EnumLoopStep(o)
       IN  CASE step = "push" ->
                  /\ interface_data_entries' = Append(interface_data_entries, o.out)
                  /\ index' = index + 1
                  /\ calls' = log
                  /\ UNCHANGED <<world, pc, class_devs_info, device_info_entries,
                                 info_pos, device_data, pos, resolver, handle,
                                 devices, result>>
             [] step = "break" ->
                  EnterLoop(WithoutInfoPush(<<>>, interface_data_entries), log)
             [] OTHER -> PropagateErr(o, log, <<>>)

\* setup_di_get_device_interface_detail, step 1 and 2: the size probe, then
\* the buffer with its cbSize field
DetailProbe ==
  /\ pc = "detail_probe"
  /\ LET k == device_data[pos].interface_data
     IN  \E o \in OsDetailProbe(k) :
           LET log == Append(calls, Call("SetupDiGetDeviceInterfaceDetailW", k, 0, 0,
                                         o.ok, o.err, o.out))
           IN  IF DetailProbeFails(o)
               THEN PropagateErr(o, log, device_data)
               ELSE /\ required_size' = o.out
                    /\ raw_memory' =
                         Overwrite(AllocRawMemory(o.out), 0, DwordBytes(CbSizeDetail))
                    /\ pc' = "detail_data"
                    /\ calls' = log
                    /\ UNCHANGED <<world, class_devs_info, walker, device_data, pos,
                                   device_interface_detail, handle, hidd_attributes,
                                   product_string, serial_number_string, devices,
                                   result>>

\* setup_di_get_device_interface_detail, step 3: the data call
DetailData ==
  /\ pc = "detail_data"
  /\ LET k == device_data[pos].interface_data
         path_size == PathSize(required_size)
     IN  \E o \in OsDetailData(world, k, raw_memory) :
           LET log == Append(calls, Call("SetupDiGetDeviceInterfaceDetailW", k, 0,
                                         Len(raw_memory), o.ok, o.err, o.out.DevInst))
           IN  IF ~o.ok
               THEN PropagateErr(o, log, device_data)
               ELSE /\ device_interface_detail' =
                         [device_path |->
                            lpcwstr_to_string(
                              WideAt(o.out.buffer, SizeOfDWORD, path_size), path_size),
                          device_info_data |-> o.out.DevInst]
                    /\ required_size' = 0
                    /\ raw_memory' = <<>>
                    /\ pc' = "create_file"
                    /\ calls' = log
                    /\ UNCHANGED <<world, class_devs_info, walker, device_data, pos,
                                   handle, hidd_attributes, product_string,
                                   serial_number_string, devices, result>>

\* a create_file whose failure is not propagated: the scan goes on with the
\* empty Handle
CreateFileUnchecked ==
  /\ pc = "create_file"
  /\ LET name == string_to_lpcwstr(device_interface_detail.device_path)
     IN  \E o \in OsCreateFile(world, name) :
           /\ handle' = IF o.ok THEN Some(o.out) ELSE None
           /\ pc' = "get_attributes"
           /\ calls' = HandleDrop(template_file,
                         Append(calls, Call("CreateFileW",
                                  IfaceOfPath(world, lpcwstr_to_string(name, Len(name))),
                                  0, 0, o.ok, o.err, o.out)))
           /\ UNCHANGED <<world, class_devs_info, walker, device_data, pos,
                          resolver, devices, result>>

\* create_file on the resolved path, and the `?` on it
CreateFile ==
  /\ pc = "create_file"
  /\ LET name == string_to_lpcwstr(device_interface_detail.device_path)
     IN  \E o \in OsCreateFile(world, name) :
           LET log == HandleDrop(template_file,
                        Append(calls, Call("CreateFileW",
                                 IfaceOfPath(world, lpcwstr_to_string(name, Len(name))),
                                 0, 0, o.ok, o.err, o.out)))
           IN  IF ~o.ok
               THEN PropagateErr(o, log, device_data)
               ELSE /\ handle' = Some(o.out)
                    /\ pc' = "get_attributes"
                    /\ calls' = log
                    /\ UNCHANGED <<world, class_devs_info, walker, device_data, pos,
                                   resolver, devices, result>>

\* hid_d_get_attributes, and the `?` on it
GetAttributes ==
  /\ pc = "get_attributes"
  /\ \E o \in OsGetAttributes(NativeOrNull(handle)) :
       LET log == Append(calls, Call("HidD_GetAttributes", NativeOrNull(handle), 0, 0,
                                     o.ok, o.err, o.out))
       IN  IF ~o.ok
           THEN PropagateErr(o, log, device_data)
           ELSE /\ hidd_attributes' = o.out
                /\ pc' = "get_product_string"
                /\ calls' = log
                /\ UNCHANGED <<world, class_devs_info, walker, device_data, pos,
                               required_size, raw_memory, device_interface_detail,
                               handle, product_string, serial_number_string, devices,
                               result>>

\* hid_d_get_product_string
GetProductString ==
  /\ pc = "get_product_string"
  /\ LET h == NativeOrNull(handle)
     IN  \E o \in OsGetString(h, ProductStringOf(h), MAXSIZE) :
           /\ product_string' = hid_d_get_product_string(o)
           /\ pc' = "get_serial_number_string"
           /\ calls' = Append(calls, Call("HidD_GetProductString", h, 0, MAXSIZE,
                                          o.ok, o.err, 0))
           /\ UNCHANGED <<world, class_devs_info, walker, device_data, pos,
                          required_size, raw_memory, device_interface_detail, handle,
                          hidd_attributes, serial_number_string, devices, result>>

\* hid_d_get_serial_number_string, then get_pdo_name up to its first OS call
GetSerialNumberString ==
  /\ pc = "get_serial_number_string"
  /\ LET h == NativeOrNull(handle)
     IN  \E o \in OsGetString(h, SerialStringOf(h), MAXSIZE) :
           LET log == Append(calls, Call("HidD_GetSerialNumberString", h, 0, MAXSIZE,
                                         o.ok, o.err, 0))
               ss == hid_d_get_serial_number_string(o)
           IN  IF ~IsSome(device_data[pos].info_data)
               THEN FinishDevice(ss, None, log)
               ELSE /\ serial_number_string' = ss
                    /\ pc' = "registry_probe"
                    /\ calls' = log
                    /\ UNCHANGED <<world, class_devs_info, walker, device_data, pos,
                                   required_size, raw_memory, device_interface_detail,
                                   handle, hidd_attributes, product_string, devices,
                                   result>>

\* setup_di_get_device_registry_property, the size probe and the buffer
RegistryProbe ==
  /\ pc = "registry_probe"
  /\ LET info == Unwrap(device_data[pos].info_data)
     IN  \E o \in OsRegistryProbe(info) :
           /\ required_size' = o.out
           /\ raw_memory' = AllocRawMemory(o.out)
           /\ pc' = "registry_data"
           /\ calls' = Append(calls, Call("SetupDiGetDeviceRegistryPropertyW", info, 0, 0,
                                          o.ok, o.err, o.out))
           /\ UNCHANGED <<world, class_devs_info, walker, device_data, pos,
                          device_interface_detail, handle, hidd_attributes,
                          product_string, serial_number_string, devices, result>>

\* setup_di_get_device_registry_property, the data call, and the rest of
\* get_pdo_name.  An empty Vec<u8> has a dangling pointer of alignment 1:
\* slice::from_raw_parts on it as *const u16 is undefined behaviour, which a
\* build either lets through (an empty slice) or traps on.
RegistryData ==
  /\ pc = "registry_data"
  /\ LET info == Unwrap(device_data[pos].info_data)
     IN  \E o \in OsRegistryData(info, raw_memory) :
           LET log == Append(calls, Call("SetupDiGetDeviceRegistryPropertyW", info, 0,
                                         Len(raw_memory), o.ok, o.err, 0))
           IN  \/ FinishDevice(serial_number_string, PdoNameFromBuffer(o.out), log)
               \/ (Len(o.out) = 0 /\ Abort(log))

Next ==
  \/ GetClassDevs
  \/ EnumDeviceInfo
  \/ EnumInterfacesWithInfo
  \/ EnumInterfacesWithoutInfo
  \/ DetailProbe
  \/ DetailData
  \/ CreateFile
  \/ GetAttributes
  \/ GetProductString
  \/ GetSerialNumberString
  \/ RegistryProbe
  \/ RegistryData

Spec == Init /\ [][Next]_vars

\* ===================================================== reading the calls
DetailFn == "SetupDiGetDeviceInterfaceDetailW"
RegistryFn == "SetupDiGetDeviceRegistryPropertyW"

Last(q) == q[Len(q)]

IsRelease(c) == c.fn \in {"CloseHandle", "SetupDiDestroyDeviceInfoList"}

\* the calls of one OS function, in program order
CallsOf(fn) == SelectSeq(calls, LAMBDA c : c.fn = fn)

\* a failure that list_hid_device does not absorb
Fatal(c) ==
  /\ ~c.ok
  /\ \/ c.fn \in {"SetupDiGetClassDevsW", "CreateFileW", "HidD_GetAttributes"}
     \/ c.fn = "SetupDiEnumDeviceInterfaces" /\ c.err # ERROR_NO_MORE_ITEMS
     \/ c.fn = DetailFn /\ ~(c.size = 0 /\ c.err = ERROR_INSUFFICIENT_BUFFER)

\* a failure of the device-info enumeration other than "no more items"
InfoEnumFailed(c) ==
  c.fn = "SetupDiEnumDeviceInfo" /\ ~c.ok /\ c.err # ERROR_NO_MORE_ITEMS

Returned == pc = "done"

\* number of positions below i whose call satisfies the test
CountBefore(i, Test(_)) == Cardinality({j \in 1..(i - 1) : Test(calls[j])})

\* ================================================================ claims

\* C1: every enumeration set obtained from SetupDiGetClassDevsW and every
\* device handle obtained from CreateFileW is released exactly once by the
\* time list_hid_device returns, with the list or with an error: a release
\* call always answers an acquisition not yet released, and on return no
\* acquisition is left without its release.
C1_ReleasedExactlyOnce ==
  LET AcqSet(c) == c.fn = "SetupDiGetClassDevsW" /\ c.ok
      RelSet(c) == c.fn = "SetupDiDestroyDeviceInfoList"
      N == Len(calls) + 1
  IN  /\ \A i \in DOMAIN calls :
           /\ RelSet(calls[i]) =>
                LET SameAcq(c) == AcqSet(c) /\ c.out = calls[i].arg
                    SameRel(c) == RelSet(c) /\ c.arg = calls[i].arg
                IN  CountBefore(i, SameAcq) = CountBefore(i, SameRel) + 1
           /\ calls[i].fn = "CloseHandle" =>
                LET SameAcq(c) == c.fn = "CreateFileW" /\ c.ok /\ c.out = calls[i].arg
                    SameRel(c) == c.fn = "CloseHandle" /\ c.arg = calls[i].arg
                IN  CountBefore(i, SameAcq) = CountBefore(i, SameRel) + 1
      /\ Returned =>
           /\ CountBefore(N, AcqSet) = CountBefore(N, RelSet)
           /\ \A i \in DOMAIN calls :
                calls[i].fn = "CreateFileW" /\ calls[i].ok =>
                  LET SameAcq(c) == c.fn = "CreateFileW" /\ c.ok /\ c.out = calls[i].out
                      SameRel(c) == c.fn = "CloseHandle" /\ c.arg = calls[i].out
                  IN  CountBefore(N, SameAcq) = CountBefore(N, SameRel)
           /\ class_devs_info = None
           /\ handle = None

\* C1 witness: a run that returned an error after it had opened a second
\* device, both handles and the set released.
C1_Witness ==
  /\ Returned
  /\ result.kind = "Err"
  /\ Len(CallsOf("CloseHandle")) = 2
  /\ Len(CallsOf("SetupDiDestroyDeviceInfoList")) = 1

\* C2: a fatal failure (set acquisition, an interface enumeration of the
\* walker, a detail query, an open, an attribute query) ends the run in the
\* same step: its error is the value returned, only releases follow it, and
\* a returned list is complete (one record per pair of the walker), so no
\* partial list is ever returned.
C2_FirstFatalErrorEndsScan ==
  /\ \A i \in DOMAIN calls :
       Fatal(calls[i]) =>
         /\ Returned
         /\ result = Err(calls[i].err)
         /\ \A j \in (i + 1)..Len(calls) : IsRelease(calls[j])
  /\ Returned => result.kind \in {"Ok", "Err"}
  /\ result.kind = "Err" => \E i \in DOMAIN calls : Fatal(calls[i])
  /\ result.kind = "Ok" => Len(result.devices) = Len(device_data)

\* C2 witness: the open of the second device failed after the first record
\* had been built, and an error was returned.
C2_Witness ==
  /\ Returned
  /\ result.kind = "Err"
  /\ \E i, j \in DOMAIN calls :
       /\ i < j
       /\ calls[i].fn = "HidD_GetSerialNumberString"
       /\ calls[j].fn = "CreateFileW"
       /\ ~calls[j].ok

\* C3: a failed HidD_GetAttributes fails the whole scan with its error, so
\* no returned list omits such a device, and record n of a returned list
\* carries the identifiers the OS reported on the handle opened for its path.
C3_AttributesMandatory ==
  /\ \A i \in DOMAIN calls :
       calls[i].fn = "HidD_GetAttributes" /\ ~calls[i].ok =>
         Returned /\ result = Err(calls[i].err)
  /\ result.kind = "Ok" =>
       LET attr == CallsOf("HidD_GetAttributes")
           open == CallsOf("CreateFileW")
       IN  /\ Len(attr) = Len(result.devices)
           /\ Len(open) = Len(result.devices)
           /\ \A n \in DOMAIN result.devices :
                /\ attr[n].ok
                /\ attr[n].arg = open[n].out
                /\ DevicePathOf(open[n].arg) = result.devices[n].path
                /\ result.devices[n].vendor_id = attr[n].out.VendorID
                /\ result.devices[n].product_id = attr[n].out.ProductID

\* C3 witness: the attribute query of the second device failed after the
\* one of the first device had succeeded.
C3_Witness ==
  /\ Returned
  /\ \E i, j \in DOMAIN calls :
       /\ i < j
       /\ calls[i].fn = "HidD_GetAttributes" /\ calls[i].ok
       /\ calls[j].fn = "HidD_GetAttributes" /\ ~calls[j].ok

\* C4: in a returned list the product string of record n is present exactly
\* when the n-th HidD_GetProductString call succeeded, the serial number
\* exactly when the n-th HidD_GetSerialNumberString call succeeded, each
\* whatever the other did; the record is there with its path and identifiers
\* either way; and an error is only ever returned for a fatal failure, never
\* for a failed string query.
C4_StringsIndependentlyOptional ==
  /\ result.kind = "Ok" =>
       LET ps == CallsOf("HidD_GetProductString")
           ss == CallsOf("HidD_GetSerialNumberString")
       IN  /\ Len(ps) = Len(result.devices)
           /\ Len(ss) = Len(result.devices)
           /\ Len(result.devices) = Len(device_data)
           /\ \A n \in DOMAIN result.devices :
                LET k == device_data[n].interface_data
                    r == result.devices[n]
                IN  /\ IsSome(r.product_string) <=> ps[n].ok
                    /\ IsSome(r.serial_number_string) <=> ss[n].ok
                    /\ ps[n].ok => r.product_string = Some(ProductStringOf(k))
                    /\ ss[n].ok => r.serial_number_string = Some(SerialStringOf(k))
                    /\ r.path = DevicePathOf(k)
                    /\ r.vendor_id = VendorIdOf(k)
                    /\ r.product_id = ProductIdOf(k)
  /\ result.kind = "Err" =>
       \E i \in DOMAIN calls :
         /\ Fatal(calls[i])
         /\ result.code = calls[i].err
         /\ \A j \in (i + 1)..Len(calls) : IsRelease(calls[j])
  /\ \A i \in DOMAIN calls :
       /\ calls[i].fn \in {"HidD_GetProductString", "HidD_GetSerialNumberString"}
       /\ ~calls[i].ok
       /\ i = Len(calls)
       => pc \in {"get_serial_number_string", "registry_probe"}

\* C4 witness: a returned list with one record whose two strings are both
\* absent and one record with a product string and no serial number.
C4_Witness ==
  /\ result.kind = "Ok"
  /\ \E m, n \in DOMAIN result.devices :
       /\ result.devices[m].product_string = None
       /\ result.devices[m].serial_number_string = None
       /\ IsSome(result.devices[n].product_string)
       /\ result.devices[n].serial_number_string = None

\* the registry calls made for record n of the walker's list: the devices
\* with a parent info entry each make one probe and one data call
RegistryRank(n) ==
  Cardinality({m \in 1..n : IsSome(device_data[m].info_data)})
RegistryQueryOk(n) ==
  LET reg == CallsOf(RegistryFn)
      q == RegistryRank(n)
  IN  /\ reg[2 * q - 1].err = ERROR_INSUFFICIENT_BUFFER
      /\ reg[2 * q].ok

\* C5 (as claimed): the physical-device-object name of a record is absent
\* when the entry has no parent info entry and when the registry query (its
\* probe or its data call) failed, it is present only when the query
\* succeeded, and a failed query never makes the scan return an error.
C5_PdoAbsentWhenQueryFails ==
  /\ result.kind = "Ok" =>
       \A n \in DOMAIN result.devices :
         IF IsSome(device_data[n].info_data)
         THEN IsSome(result.devices[n].pdo_name) <=> RegistryQueryOk(n)
         ELSE result.devices[n].pdo_name = None
  /\ result.kind = "Err" =>
       \E i \in DOMAIN calls : Fatal(calls[i]) /\ calls[i].fn # RegistryFn

\* C6 (as claimed): a failure of the device-info enumeration other than
\* "no more items" is fatal: list_hid_device returns that error and no list.
C6_InfoEnumErrorFatal ==
  \A i \in DOMAIN calls :
    InfoEnumFailed(calls[i]) /\ Returned => result = Err(calls[i].err)

\* C6 (amended): a failure of the device-info enumeration other than "no
\* more items" ends that enumeration and discards its entries but is not
\* fatal: the next OS call is the global interface enumeration at index 0,
\* and an error is returned only for a later, fatal call, with that call's
\* error.
C6_InfoEnumErrorFallsBack ==
  \A i \in DOMAIN calls :
    InfoEnumFailed(calls[i]) =>
      /\ i = Len(calls) => pc = "enum_interfaces_without_info"
      /\ i < Len(calls) =>
           /\ calls[i + 1].fn = "SetupDiEnumDeviceInterfaces"
           /\ calls[i + 1].arg = 0
           /\ calls[i + 1].idx = 0
      /\ device_info_entries = <<>>
      /\ \A j \in (i + 1)..Len(calls) : calls[j].fn # "SetupDiEnumDeviceInfo"
      /\ result.kind = "Err" =>
           \E j \in (i + 1)..Len(calls) :
             Fatal(calls[j]) /\ result.code = calls[j].err

\* C6 witness: the device-info enumeration failed after it had yielded an
\* entry, and list_hid_device returned a list with a record.
C6_Witness ==
  /\ result.kind = "Ok"
  /\ Len(result.devices) >= 1
  /\ \E i \in DOMAIN calls : InfoEnumFailed(calls[i]) /\ calls[i].idx >= 1

\* C7: after a failed device-info enumeration the walker runs one global
\* interface enumeration (null info entry, indices 0, 1, 2, ... once), every
\* pair it builds has no parent info entry, every record of the returned
\* list has no physical-device-object name (no registry query is made), and
\* an error of the global enumeration is returned as the error of the scan.
C7_FallbackGlobalEnumeration ==
  (\E i \in DOMAIN calls : InfoEnumFailed(calls[i])) =>
    LET enum == CallsOf("SetupDiEnumDeviceInterfaces")
    IN  /\ \A n \in DOMAIN enum : enum[n].arg = 0 /\ enum[n].idx = n - 1
        /\ \A n \in DOMAIN enum : n < Len(enum) => enum[n].ok
        /\ \A n \in DOMAIN device_data : device_data[n].info_data = None
        /\ pc \notin {"enum_device_info", "enum_interfaces_with_info",
                      "enum_interfaces_without_info"}
             /\ (enum # <<>> => Last(enum).err = ERROR_NO_MORE_ITEMS)
             => /\ Len(device_data) = Len(enum) - 1
                /\ \A n \in DOMAIN device_data :
                     device_data[n].interface_data = enum[n].out
        /\ CallsOf(RegistryFn) = <<>>
        /\ result.kind = "Ok" =>
             \A n \in DOMAIN result.devices : result.devices[n].pdo_name = None
        /\ \A n \in DOMAIN enum :
             ~enum[n].ok /\ enum[n].err # ERROR_NO_MORE_ITEMS =>
               Returned /\ result = Err(enum[n].err)

\* C7 witness: the fallback produced two pairs and the scan returned two
\* records.
C7_Witness ==
  /\ \E i \in DOMAIN calls : InfoEnumFailed(calls[i])
  /\ result.kind = "Ok"
  /\ Len(result.devices) = 2

\* C8: a returned list has as many records as the enumeration set has HID
\* interfaces, each interface in exactly one record, on the per-info path
\* and on the fallback path alike.
C8_LengthEqualsInterfaces ==
  result.kind = "Ok" =>
    /\ Len(result.devices) = IfaceTotal(world)
    /\ \A k \in 1..IfaceTotal(world) :
         Cardinality({n \in DOMAIN result.devices :
                        result.devices[n].path = DevicePathOf(k)}) = 1

\* C8 witness: the device-info enumeration failed after it had yielded an
\* entry, and the fallback list has both interfaces of a set of two info
\* entries.
C8_Witness ==
  /\ result.kind = "Ok"
  /\ Len(world) = 2
  /\ Len(result.devices) = 2
  /\ \E i \in DOMAIN calls : InfoEnumFailed(calls[i]) /\ calls[i].idx = 1

\* C9: the resolver is entered once per pair of the walker and in the
\* walker's order (the n-th detail probe is for pair n, record n is built
\* from pair n); the walker's list is the successful interface enumeration
\* calls in the order they were made, each interface paired with the info
\* entry it was enumerated under, by info index and then interface index.
C9_EnumerationOrder ==
  LET probes == SelectSeq(calls, LAMBDA c : c.fn = DetailFn /\ c.size = 0)
      enum == SelectSeq(calls, LAMBDA c : c.fn = "SetupDiEnumDeviceInterfaces" /\ c.ok)
      walking == pc \in {"get_class_devs", "enum_device_info",
                         "enum_interfaces_with_info", "enum_interfaces_without_info"}
      walker_failed ==
        \E i \in DOMAIN calls :
          Fatal(calls[i]) /\ calls[i].fn = "SetupDiEnumDeviceInterfaces"
  IN  /\ Len(probes) <= Len(device_data)
      /\ \A n \in DOMAIN probes : probes[n].arg = device_data[n].interface_data
      /\ ~walking /\ ~Returned => Len(probes) \in {pos - 1, pos}
      /\ result.kind = "Ok" =>
           /\ Len(probes) = Len(device_data)
           /\ Len(result.devices) = Len(device_data)
           /\ \A n \in DOMAIN result.devices :
                LET k == device_data[n].interface_data
                IN  /\ result.devices[n].path = DevicePathOf(k)
                    /\ result.devices[n].dev_inst = Some(IfaceOwner(world, k))
      /\ ~walking /\ ~walker_failed =>
           /\ Len(device_data) = Len(enum)
           /\ \A n \in DOMAIN enum :
                device_data[n] =
                  [interface_data |-> enum[n].out,
                   info_data |-> IF enum[n].arg = 0 THEN None ELSE Some(enum[n].arg)]
      /\ \A m, n \in DOMAIN enum :
           m < n =>
             \/ enum[m].arg < enum[n].arg
             \/ enum[m].arg = enum[n].arg /\ enum[m].idx < enum[n].idx

\* C9 witness: a list of two records returned on the per-info path from two
\* info entries.
C9_Witness ==
  /\ result.kind = "Ok"
  /\ Len(result.devices) = 2
  /\ IsSome(device_data[1].info_data)
  /\ device_data[1].info_data # device_data[2].info_data

\* C10: the interface-detail query makes one size probe with a null buffer
\* of size 0; a probe failure other than "buffer too small" is returned as
\* the error of the scan with no data call; otherwise one data call follows
\* with a buffer of exactly the reported size S (the true size of the
\* detail); a failed data call is returned as the error of the scan; no
\* third call is made.
C10_TwoPhaseDetailQuery ==
  \A i \in DOMAIN calls :
    calls[i].fn = DetailFn =>
      IF i = 1 \/ calls[i - 1].fn # DetailFn
      THEN /\ calls[i].size = 0
           /\ IF ~calls[i].ok /\ calls[i].err # ERROR_INSUFFICIENT_BUFFER
              THEN /\ Returned
                   /\ result = Err(calls[i].err)
                   /\ \A j \in (i + 1)..Len(calls) : IsRelease(calls[j])
              ELSE /\ i = Len(calls) =>
                        pc = "detail_data" /\ Len(raw_memory) = calls[i].out
                   /\ i < Len(calls) =>
                        /\ calls[i + 1].fn = DetailFn
                        /\ calls[i + 1].arg = calls[i].arg
                        /\ calls[i + 1].size = calls[i].out
                        /\ calls[i + 1].size = DetailSizeOf(calls[i].arg)
      ELSE /\ i > 2 => calls[i - 2].fn # DetailFn
           /\ ~calls[i].ok => Returned /\ result = Err(calls[i].err)
           /\ i < Len(calls) => calls[i + 1].fn # DetailFn

\* C10 witness: the data call for the second device, made with that
\* device's size, failed and ended the scan.
C10_Witness ==
  /\ Returned
  /\ \E i \in DOMAIN calls :
       /\ i > 1
       /\ calls[i].fn = DetailFn
       /\ calls[i - 1].fn = DetailFn
       /\ calls[i].arg = 2
       /\ calls[i].size = DetailSizeOf(2)
       /\ ~calls[i].ok

\* C11: when no HID device is present and no call fails fatally,
\* list_hid_device returns the empty list, not an error; this includes a
\* device-info enumeration that yields no entry at all.  An info entry whose
\* interface enumeration ends with "no more items" at index 0 contributes no
\* pair, no record and no error.
C11_NoDeviceIsEmptyList ==
  /\ (/\ Returned
      /\ IfaceTotal(world) = 0
      /\ \A i \in DOMAIN calls : ~Fatal(calls[i]))
       => result = Ok(<<>>)
  /\ \A i \in DOMAIN calls :
       (/\ calls[i].fn = "SetupDiEnumDeviceInterfaces"
        /\ calls[i].arg # 0
        /\ calls[i].idx = 0
        /\ ~calls[i].ok
        /\ calls[i].err = ERROR_NO_MORE_ITEMS)
         => /\ \A n \in DOMAIN device_data :
                 device_data[n].info_data # Some(calls[i].arg)
            /\ \A n \in DOMAIN result.devices :
                 result.devices[n].dev_inst # Some(calls[i].arg)
            /\ result.kind = "Err" =>
                 \E j \in DOMAIN calls : j # i /\ Fatal(calls[j])

\* C11 witness: two info entries, neither with a HID interface, each asked
\* once for its interfaces, and the empty list returned.
C11_Witness ==
  /\ Returned
  /\ result = Ok(<<>>)
  /\ Len(world) = 2
  /\ \A j \in 1..2 :
       \E i \in DOMAIN calls :
         calls[i].fn = "SetupDiEnumDeviceInterfaces" /\ calls[i].arg = j

\* a failed call whose error is one of the two benign sentinels at the place
\* that absorbs it: "no more items" from an indexed enumeration call, or
\* "buffer too small" from the size probe that opens a two-phase query
Sentinel(i) ==
  /\ ~calls[i].ok
  /\ \/ /\ calls[i].fn \in {"SetupDiEnumDeviceInfo", "SetupDiEnumDeviceInterfaces"}
        /\ calls[i].err = ERROR_NO_MORE_ITEMS
     \/ /\ calls[i].fn = DetailFn
        /\ i = 1 \/ calls[i - 1].fn # DetailFn
        /\ calls[i].err = ERROR_INSUFFICIENT_BUFFER
     \/ /\ calls[i].fn = RegistryFn
        /\ LET IsRegistry(c) == c.fn = RegistryFn
           IN  CountBefore(i, IsRegistry) % 2 = 0
        /\ calls[i].err = ERROR_INSUFFICIENT_BUFFER

\* C13: a sentinel is absorbed where it occurs.  After it the scan goes on
\* with its next OS call (the data call, after a size probe), or it has
\* reached its normal end and returns the list; and whenever an error is
\* returned, it is the error of a later, fatal call, never the sentinel.
C13_SentinelsAbsorbed ==
  \A i \in DOMAIN calls :
    Sentinel(i) =>
      /\ \/ i = Len(calls) /\ pc \notin {"done", "aborted"}
         \/ i < Len(calls) /\ ~IsRelease(calls[i + 1])
         \/ /\ Returned
            /\ result.kind = "Ok"
            /\ \A j \in (i + 1)..Len(calls) : IsRelease(calls[j])
      /\ calls[i].fn \in {DetailFn, RegistryFn} /\ i < Len(calls) =>
           /\ calls[i + 1].fn = calls[i].fn
           /\ calls[i + 1].arg = calls[i].arg
      /\ result.kind = "Err" =>
           \E j \in (i + 1)..Len(calls) :
             /\ Fatal(calls[j])
             /\ result.code = calls[j].err
             /\ \A n \in (j + 1)..Len(calls) : IsRelease(calls[n])

\* C13 witness: a run that met an enumeration sentinel and a size-probe
\* sentinel, went on, and later returned the error of a failed open, whose
\* code happens to be "no more items".
C13_Witness ==
  /\ Returned
  /\ result = Err(ERROR_NO_MORE_ITEMS)
  /\ \E i, j \in DOMAIN calls :
       /\ Sentinel(i) /\ calls[i].fn = "SetupDiEnumDeviceInterfaces"
       /\ Sentinel(j) /\ calls[j].fn = DetailFn
       /\ i < j
  /\ Last(SelectSeq(calls, LAMBDA c : ~IsRelease(c))).fn = "CreateFileW"

\* C14: a Handle that holds nothing releases nothing when dropped.  The
\* null handle is never closed; the empty template dropped when create_file
\* returns is followed by no CloseHandle; CloseHandle calls never outnumber
\* the successful CreateFileW calls and equal them once list_hid_device has
\* returned; no CloseHandle follows a failed CreateFileW; and a failed
\* SetupDiGetClassDevsW is followed by no release call at all.
C14_EmptyHandleNeverClosed ==
  LET Opened(c) == c.fn = "CreateFileW" /\ c.ok
      Closed(c) == c.fn = "CloseHandle"
      N == Len(calls) + 1
  IN  /\ \A i \in DOMAIN calls :
           /\ Closed(calls[i]) => calls[i].arg # 0
           /\ calls[i].fn = "CreateFileW" =>
                /\ i < Len(calls) => ~Closed(calls[i + 1])
                /\ ~calls[i].ok =>
                     \A j \in (i + 1)..Len(calls) : ~Closed(calls[j])
           /\ calls[i].fn = "SetupDiGetClassDevsW" /\ ~calls[i].ok =>
                Returned /\ Len(calls) = i
      /\ CountBefore(N, Closed) <= CountBefore(N, Opened)
      /\ Returned => CountBefore(N, Closed) = CountBefore(N, Opened)

\* C14 witness: the open of the second device failed after the first device
\* had been resolved; one handle was opened and one closed.
C14_Witness ==
  /\ Returned
  /\ \E i \in DOMAIN calls :
       calls[i].fn = "CreateFileW" /\ ~calls[i].ok /\ calls[i].arg = 2
  /\ Len(CallsOf("CloseHandle")) = 1
  /\ calls[Len(calls)].fn = "SetupDiDestroyDeviceInfoList"

\* the call at position i belongs to one of the two indexed enumerations
IsEnum(i) ==
  calls[i].fn \in {"SetupDiEnumDeviceInfo", "SetupDiEnumDeviceInterfaces"}

\* the call at position j belongs to the same loop as the enumeration call
\* at position i (same function, same info entry passed)
SameLoop(i, j) ==
  calls[j].fn = calls[i].fn /\ calls[j].arg = calls[i].arg

\* what the successful calls of the loop of position i have yielded
LoopOuts(i) ==
  LET hits == SelectSeq(calls, LAMBDA c :
                c.fn = calls[i].fn /\ c.arg = calls[i].arg /\ c.ok)
  IN  [n \in 1..Len(hits) |-> hits[n].out]

\* the interfaces of the pairs the walker holds for the info entry a
\* (0: the pairs without info entry)
PairsOf(a) ==
  LET mine == SelectSeq(device_data, LAMBDA p :
                p.info_data = (IF a = 0 THEN None ELSE Some(a)))
  IN  [n \in 1..Len(mine) |-> mine[n].interface_data]

\* C15: each indexed enumeration loop calls the OS with indices 0, 1, 2, ...
\* without gap, adds one entry per successful call, and makes no call after
\* its first failing one.  When that failure is "no more items" the loop
\* hands on exactly the entries of the earlier indices; on any other failure
\* it hands on no entry: the device-info entries are dropped, and a failed
\* interface enumeration is the error of the scan.
C15_IndexedEnumerationLoop ==
  \A i \in DOMAIN calls :
    IsEnum(i) =>
      /\ IF calls[i].idx = 0
         THEN \A j \in 1..(i - 1) : ~SameLoop(i, j)
         ELSE /\ SameLoop(i, i - 1)
              /\ calls[i - 1].ok
              /\ calls[i - 1].idx = calls[i].idx - 1
      /\ ~calls[i].ok => \A j \in (i + 1)..Len(calls) : ~SameLoop(i, j)
      /\ calls[i].ok /\ i < Len(calls) => SameLoop(i, i + 1)
      /\ i = Len(calls) /\ calls[i].ok =>
           /\ index = calls[i].idx + 1
           /\ Len(LoopOuts(i)) = index
           /\ IF calls[i].fn = "SetupDiEnumDeviceInfo"
              THEN pc = "enum_device_info" /\ device_info_entries = LoopOuts(i)
              ELSE /\ pc = IF calls[i].arg = 0
                             THEN "enum_interfaces_without_info"
                             ELSE "enum_interfaces_with_info"
                   /\ interface_data_entries = LoopOuts(i)
      /\ ~calls[i].ok /\ calls[i].err = ERROR_NO_MORE_ITEMS =>
           /\ Len(LoopOuts(i)) = calls[i].idx
           /\ i = Len(calls) =>
                IF calls[i].fn = "SetupDiEnumDeviceInfo"
                THEN /\ pc = "enum_interfaces_with_info"
                     /\ device_info_entries = LoopOuts(i)
                ELSE PairsOf(calls[i].arg) = LoopOuts(i)
           /\ i < Len(calls) /\ IsRelease(calls[i + 1]) =>
                Returned /\ result = Ok(<<>>) /\ device_data = <<>>
      /\ ~calls[i].ok /\ calls[i].err # ERROR_NO_MORE_ITEMS =>
           IF calls[i].fn = "SetupDiEnumDeviceInfo"
           THEN /\ \A j \in DOMAIN calls :
                     calls[j].fn = "SetupDiEnumDeviceInterfaces" => calls[j].arg = 0
                /\ i = Len(calls) =>
                     /\ pc = "enum_interfaces_without_info"
                     /\ device_info_entries = <<>>
           ELSE /\ Returned
                /\ result = Err(calls[i].err)
                /\ device_data = <<>>

\* C15 witness: an interface enumeration asked for index 2 after two
\* successful calls and was told "no more items"; its two entries are the
\* walker's pairs.
C15_Witness ==
  /\ pc = "detail_probe"
  /\ calls[Len(calls)].fn = "SetupDiEnumDeviceInterfaces"
  /\ calls[Len(calls)].idx = 2
  /\ calls[Len(calls)].err = ERROR_NO_MORE_ITEMS
  /\ Len(device_data) = 2

\* C16 (as claimed): the registry-property query follows the error rules of
\* the two-phase protocol: after a size probe that failed with an error
\* other than "buffer too small" the query returns that error, so no data
\* call follows; after a failed data call the query returns an error and no
\* buffer, so the record built for that device has no name from it.
C16_RegistryQueryErrorRules ==
  LET IsRegistry(c) == c.fn = RegistryFn
      Opened(c) == c.fn = "CreateFileW" /\ c.ok
      records == IF Returned THEN result.devices ELSE devices
  IN  \A i \in DOMAIN calls :
        IsRegistry(calls[i]) =>
          IF CountBefore(i, IsRegistry) % 2 = 0
          THEN ~calls[i].ok /\ calls[i].err # ERROR_INSUFFICIENT_BUFFER =>
                 /\ i = Len(calls) => pc # "registry_data"
                 /\ i < Len(calls) => ~IsRegistry(calls[i + 1])
          ELSE ~calls[i].ok =>
                 /\ pc = "aborted" => i < Len(calls)
                 /\ CountBefore(i, Opened) \in DOMAIN records =>
                      records[CountBefore(i, Opened)].pdo_name = None

\* the device handles open just before the call at position i (Len(calls) + 1:
\* now): successful opens so far less the closes so far
OpenAt(i) ==
  LET Opened(c) == c.fn = "CreateFileW" /\ c.ok
      Closed(c) == c.fn = "CloseHandle"
  IN  CountBefore(i, Opened) - CountBefore(i, Closed)

\* C17: the device handle opened for one interface is closed at the end of
\* that interface's resolution, whatever its outcome.  At most one device
\* handle is open at any moment, and it is the one the current iteration
\* holds; none is open when the detail of an interface is queried or a
\* device is opened; a failed attribute query is followed at once by the
\* close of its handle; and none is open when the enumeration set is
\* destroyed.  (The number of open handles changes only at an open or a
\* close: it is 0 before every open and 1 before every close, so it is
\* never above one.)
C17_HandleClosedPerInterface ==
  /\ OpenAt(Len(calls) + 1) \in {0, 1}
  /\ IsSome(handle) <=> OpenAt(Len(calls) + 1) = 1
  /\ \A i \in DOMAIN calls :
       /\ calls[i].fn \in {DetailFn, "CreateFileW", "SetupDiDestroyDeviceInfoList"} =>
            OpenAt(i) = 0
       /\ calls[i].fn = "CreateFileW" /\ calls[i].ok /\ i = Len(calls) =>
            handle = Some(calls[i].out)
       /\ calls[i].fn = "HidD_GetAttributes" /\ ~calls[i].ok =>
            /\ calls[i + 1].fn = "CloseHandle"
            /\ calls[i + 1].arg = calls[i].arg
       /\ calls[i].fn = "CloseHandle" =>
            /\ OpenAt(i) = 1
            /\ \E j \in 1..(i - 1) :
                 /\ calls[j].fn = "CreateFileW" /\ calls[j].ok
                 /\ calls[j].out = calls[i].arg
                 /\ \A n \in (j + 1)..(i - 1) :
                      calls[n].fn \notin {DetailFn, "CreateFileW", "CloseHandle",
                                          "SetupDiDestroyDeviceInfoList"}

\* C17 witness: two devices resolved into records, each handle closed, the
\* second one just before the enumeration set was destroyed.
C17_Witness ==
  /\ Returned
  /\ Len(result.devices) = 2
  /\ Len(CallsOf("CloseHandle")) = 2
  /\ calls[Len(calls) - 1].fn = "CloseHandle"
  /\ calls[Len(calls)].fn = "SetupDiDestroyDeviceInfoList"

\* C18: within the resolution of one interface the OS is asked in a fixed
\* order: detail (probe, data), open, attributes, product string, serial
\* string, physical-device-object name.  A device is opened only right after
\* its detail was resolved; attributes are queried only right after a
\* successful open, on its handle; the product string only right after
\* successful attributes; the serial string right after the product string,
\* whatever that one's outcome; the name right after the serial string; and
\* each step that succeeded is followed by the next one, never by another.
C18_ResolutionOrder ==
  \A i \in DOMAIN calls :
    LET c == calls[i]
        HasPrev(fn) == i > 1 /\ calls[i - 1].fn = fn
        NextIs(fn) == i < Len(calls) => calls[i + 1].fn = fn
        IsRegistry(x) == x.fn = RegistryFn
        IsProbe == IF c.fn = DetailFn THEN ~HasPrev(DetailFn)
                   ELSE CountBefore(i, IsRegistry) % 2 = 0
    IN  /\ c.fn = DetailFn /\ IsProbe =>
             /\ i > 1
             /\ calls[i - 1].fn \in {"SetupDiEnumDeviceInterfaces", "CloseHandle"}
        /\ c.fn = DetailFn /\ ~IsProbe =>
             /\ calls[i - 1].arg = c.arg
             /\ calls[i - 1].err = ERROR_INSUFFICIENT_BUFFER
             /\ c.ok => NextIs("CreateFileW")
        /\ c.fn = "CreateFileW" =>
             /\ HasPrev(DetailFn)
             /\ calls[i - 1].ok
             /\ calls[i - 1].size > 0
             /\ calls[i - 1].arg = c.arg
             /\ c.ok => NextIs("HidD_GetAttributes")
        /\ c.fn = "HidD_GetAttributes" =>
             /\ HasPrev("CreateFileW")
             /\ calls[i - 1].ok
             /\ calls[i - 1].out = c.arg
             /\ c.ok => NextIs("HidD_GetProductString")
        /\ c.fn = "HidD_GetProductString" =>
             /\ HasPrev("HidD_GetAttributes")
             /\ calls[i - 1].ok
             /\ calls[i - 1].arg = c.arg
             /\ NextIs("HidD_GetSerialNumberString")
        /\ c.fn = "HidD_GetSerialNumberString" =>
             /\ HasPrev("HidD_GetProductString")
             /\ calls[i - 1].arg = c.arg
             /\ i < Len(calls) => calls[i + 1].fn \in {RegistryFn, "CloseHandle"}
        /\ c.fn = RegistryFn /\ IsProbe =>
             /\ HasPrev("HidD_GetSerialNumberString")
             /\ NextIs(RegistryFn)
        /\ c.fn = RegistryFn /\ ~IsProbe =>
             /\ HasPrev(RegistryFn)
             /\ NextIs("CloseHandle")

\* C18 witness: one interface went through all six steps, its product
\* string query failing and its serial string query succeeding.
C18_Witness ==
  \E i \in DOMAIN calls :
    /\ i > 7
    /\ calls[i].fn = RegistryFn
    /\ calls[i - 1].fn = RegistryFn
    /\ calls[i - 2].fn = "HidD_GetSerialNumberString" /\ calls[i - 2].ok
    /\ calls[i - 3].fn = "HidD_GetProductString" /\ ~calls[i - 3].ok
    /\ calls[i - 4].fn = "HidD_GetAttributes"
    /\ calls[i - 5].fn = "CreateFileW"
    /\ calls[i - 6].fn = DetailFn
    /\ calls[i - 7].fn = DetailFn

\* C19: the two enumeration paths are never mixed.  The pairs the walker
\* holds either all carry a parent info entry or all carry none.  If the
\* device-info enumeration failed at any index, no interface enumeration is
\* made for an info entry and every pair has no parent; otherwise every
\* interface enumeration is made for an info entry, every pair has a
\* parent, and a failed interface enumeration is the error returned, with
\* no global enumeration after it.  The name query is made for every record
\* of a returned list or for none.
C19_PathsNeverMixed ==
  LET failed == \E i \in DOMAIN calls : InfoEnumFailed(calls[i])
  IN  /\ \A m, n \in DOMAIN device_data :
           IsSome(device_data[m].info_data) <=> IsSome(device_data[n].info_data)
      /\ \A n \in DOMAIN device_data :
           IsSome(device_data[n].info_data) <=> ~failed
      /\ \A i \in DOMAIN calls :
           calls[i].fn = "SetupDiEnumDeviceInterfaces" =>
             /\ calls[i].arg = 0 <=> failed
             /\ calls[i].arg # 0 /\ ~calls[i].ok
                  /\ calls[i].err # ERROR_NO_MORE_ITEMS =>
                  /\ Returned
                  /\ result = Err(calls[i].err)
                  /\ \A j \in (i + 1)..Len(calls) : IsRelease(calls[j])
      /\ \A i \in DOMAIN calls :
           InfoEnumFailed(calls[i]) /\ i = Len(calls) =>
             device_info_entries = <<>> /\ device_data = <<>>
      /\ result.kind = "Ok" =>
           Len(CallsOf(RegistryFn)) \in {0, 2 * Len(result.devices)}

\* C19 witness: the device-info enumeration succeeded, the first info entry
\* gave a pair, and the interface enumeration of the second info entry
\* failed: the error is returned and no global enumeration was tried.
C19_Witness ==
  /\ Returned
  /\ result.kind = "Err"
  /\ Len(calls) > 2
  /\ calls[Len(calls) - 1].fn = "SetupDiEnumDeviceInterfaces"
  /\ calls[Len(calls) - 1].arg = 2
  /\ \E i \in DOMAIN calls :
       /\ calls[i].fn = "SetupDiEnumDeviceInterfaces"
       /\ calls[i].arg = 1
       /\ calls[i].ok

====
